---- MODULE Spec2Model ----
(***************************************************************************)
(* V4l2CameraDevice (src/src/v4l2_camera_device.cpp) and the format        *)
(* requests of V4L2Camera (src/src/v4l2_camera.cpp), as a state machine.   *)
(* The session's fields keep their source names.  The kernel video device  *)
(* behind the file descriptor is modelled by the variables devFormat,      *)
(* streamOn, kbufs, kbufLen, kqueued and mmapCount.  A request to it       *)
(* (ioctl, mmap) that the V4L2 API rules out is refused; any other request *)
(* succeeds with the effect the API gives it, or the device refuses it (a  *)
(* fault, at most MaxFaults of them in a behaviour).                       *)
(* Under Spec the session is used by one caller at a time: a call runs to  *)
(* its return before the next one starts (pc says where capture() or       *)
(* open() is).  SpecControls explores the control calls in the same way on *)
(* every device of ControlTables.  SpecNode is the node V4L2Camera: its    *)
(* constructor, parameter callback and destructor on one thread and its    *)
(* capture thread on another, their steps interleaved.  SpecNodeFair is    *)
(* SpecNode with both threads scheduled fairly: a thread that can take a   *)
(* step takes it in the end, while the device need not deliver a frame.    *)
(***************************************************************************)
EXTENDS Integers, Sequences, FiniteSets, TLC

VARIABLES
  fd_,               \* V4l2CameraDevice::fd_
  cur_data_format_,  \* V4l2CameraDevice::cur_data_format_
  buffers_,          \* V4l2CameraDevice::buffers_ (buffers_[i + 1] here is buffers_[i] there)
  devFormat,         \* the format active in the device (what VIDIOC_G_FMT reports)
  streamOn,          \* the device stream is enabled
  kbufs,             \* number of buffers the kernel holds for the device
  kbufLen,           \* length of each of them
  kqueued,           \* indices of the buffers owned by the device (queued)
  mmapCount,         \* regions of the device mapped in the process
  faults,            \* requests the device has refused although the API allows them
  pc,                \* position in capture() or open(): "idle" between calls,
                     \* "crashed" once the process has died
  capBuf,            \* buf.index of the capture() in progress
  ret,               \* the last completed call: arguments, requests issued, result
  prev,              \* the call completed just before it, when it was the same request
  cyc,               \* start()/stop() repetitions while the device accepted everything
  capabilities_,     \* V4l2CameraDevice::capabilities_: "filled" once VIDIOC_QUERYCAP succeeded
  image_formats_,    \* V4l2CameraDevice::image_formats_
  controls_,         \* V4l2CameraDevice::controls_
  queryctrl,         \* the v4l2_queryctrl of listControls(): id, and the NEXT_CTRL bit of id
  queries,           \* VIDIOC_QUERYCTRL requests issued by listControls() so far
  devControls,       \* the controls of the device, by id
  devValue,          \* their values
  mpc,               \* V4L2Camera: where its constructor, callback or destructor is
  canceled_,         \* V4L2Camera::canceled_
  thread,            \* V4L2Camera::capture_thread_: "none", "running" or "exited"
  img                \* the capture thread: "none" at the test of its loop, "capturing"
                     \* inside capture(), then what capture() returned, "null" or "frame"

ctlVars == <<capabilities_, image_formats_, controls_, queryctrl, queries, devControls,
             devValue>>

nodeVars == <<mpc, canceled_, thread, img>>

vars == <<fd_, cur_data_format_, buffers_, devFormat, streamOn, kbufs, kbufLen,
          kqueued, mmapCount, faults, pc, capBuf, ret, prev, cyc, ctlVars, nodeVars>>

----------------------------------------------------------------------------
(* Bounds of the model *)
MaxGrant == 4     \* the driver grants 0..MaxGrant buffers
MaxMmap == 6      \* regions mapped at one time (leaked ones included)
MaxCycles == 3    \* start()/stop() repetitions that are counted
MaxFaults == 2    \* refusals by the device in one behaviour
MaxQueries == 6   \* control queries of one listControls() that are counted

(* Program constants *)
NumBuffersRequested == 4
V4L2_PIX_FMT_YUYV == 1448695129
NoFd == -1
DevFd == 3
V4L2_CID_USER_CLASS == 9961472

Min(a, b) == IF a < b THEN a ELSE b

----------------------------------------------------------------------------
(* Pixel formats *)

\* v4l2_fourcc(a, b, c, d) on the four character codes of the string
FourCC(s) == s[1] + s[2] * 256 + s[3] * 65536 + s[4] * 16777216

YUYV == <<89, 85, 89, 86>>
MJPG == <<77, 74, 80, 71>>
RGB3 == <<82, 71, 66, 51>>
YUV == <<89, 85, 86>>

\* what the driver fills into v4l2_pix_format for a code and a size
DriverPix(code, w, h) ==
  [pixelformat |-> code, width |-> w, height |-> h,
   bytesperline |-> IF code = V4L2_PIX_FMT_YUYV THEN 2 * w ELSE 0,
   sizeimage |-> IF code = V4L2_PIX_FMT_YUYV THEN 2 * w * h ELSE w * h]

ZeroPix == [pixelformat |-> 0, width |-> 0, height |-> 0, bytesperline |-> 0, sizeimage |-> 0]

DevCodes == {FourCC(YUYV), FourCC(MJPG)}
DevSizes == {<<640, 480>>, <<320, 240>>}
DevFormats == {DriverPix(c, s[1], s[2]) : c \in DevCodes, s \in DevSizes}

\* the formats the device may have active when it is opened
InitialFormats == {DriverPix(FourCC(YUYV), 320, 240), DriverPix(FourCC(MJPG), 640, 480)}

\* PixelFormat{pix}: the fields the session reads from cur_data_format_, taken
\* from the v4l2_pix_format
PixelFormatOf(pix) ==
  [pixelFormat |-> pix.pixelformat, width |-> pix.width, height |-> pix.height,
   bytesPerLine |-> pix.bytesperline, imageByteSize |-> pix.sizeimage]

ZeroFormat == PixelFormatOf(ZeroPix)

\* VIDIOC_S_FMT: the formats the driver may make active for a request; a code
\* or a size it does not support is replaced by one it supports
DriverAdjust(code, w, h) ==
  {DriverPix(c, s[1], s[2]) :
     c \in (IF code \in DevCodes THEN {code} ELSE DevCodes),
     s \in (IF <<w, h>> \in DevSizes THEN {<<w, h>>} ELSE DevSizes)}

\* the answers to a request the API allows: TRUE accepted, FALSE refused
Answers == IF faults < MaxFaults THEN BOOLEAN ELSE {TRUE}

\* the answers to a request the API allows only when `allowed`
AnswersIf(allowed) == IF allowed THEN Answers ELSE {FALSE}

\* 1 for a refusal that is the device's own, 0 otherwise
Fault(allowed, accepted) == IF allowed /\ ~accepted THEN 1 ELSE 0

----------------------------------------------------------------------------
(* Controls of the device *)

\* ids of V4L2_CID_BRIGHTNESS, V4L2_CID_AUTO_WHITE_BALANCE and
\* V4L2_CID_POWER_LINE_FREQUENCY
DevControlIds == {9963776, 9963788, 9963800}

\* what VIDIOC_QUERYCTRL and VIDIOC_QUERYMENU report for each of them; items:
\* the menu indices the driver supports
DevControl(type, minimum, maximum, default, items) ==
  [type |-> type, minimum |-> minimum, maximum |-> maximum, default |-> default,
   items |-> items, disabled |-> FALSE]

KnownControl(id) ==
  IF id = 9963776 THEN DevControl("INT", 0, 100, 50, {})
  ELSE IF id = 9963788 THEN DevControl("BOOL", 0, 1, 1, {})
  ELSE DevControl("MENU", 0, 2, 1, {0, 1})

\* the devices: any of the controls may be missing, any present one may carry
\* V4L2_CTRL_FLAG_DISABLED
ControlTables ==
  UNION {{[id \in present |-> [KnownControl(id) EXCEPT !.disabled = (id \in off)]] :
            off \in SUBSET present} :
         present \in SUBSET DevControlIds}

\* the devices the streaming calls are explored on: one control, enabled or
\* disabled
StreamingTables == {t \in ControlTables : DOMAIN t = {9963776}}

MinOf(S) == CHOOSE x \in S : \A y \in S : x <= y

\* VIDIOC_QUERYCTRL: the ids that answer a query for q.id; with the NEXT_CTRL
\* bit the controls with a higher id (the driver reports the lowest), without
\* it the control with that id
QueryCandidates(table, q) ==
  {id \in DOMAIN table : IF q.next THEN id > q.id ELSE id = q.id}

\* a 64 bit integer as its high word and its low word read as int32_t
Int64(hi, lo) == [hi |-> hi, lo |-> lo]

\* the int64_t with the value of the int32_t x
Widen(x) == Int64(IF x < 0 THEN -1 ELSE 0, x)

\* the conversion of int64_t to the int32_t parameter of setControlValue
Narrow(v) == v.lo

----------------------------------------------------------------------------
(* The record of a completed call *)

NoImage == [width |-> 0, height |-> 0, step |-> 0, encoding |-> "null", size |-> 0]

\* op(arg) returned ok (err names the failure); sfmt: the VIDIOC_S_FMT requests
\* it issued; grant: the count VIDIOC_REQBUFS answered (-1: none); match: the
\* stored format holds the requested values; img: the image returned
Call(op, arg, ok, err, sfmt, grant, match, image) ==
  [op |-> op, arg |-> arg, ok |-> ok, err |-> err, sfmt |-> sfmt, grant |-> grant,
   match |-> match, img |-> image]

Result(op, ok, err) == Call(op, <<>>, ok, err, 0, -1, FALSE, NoImage)

FormatOps == {"requestImageSize", "requestPixelFormat"}

NoPrev == [op |-> "none", arg |-> <<>>, ok |-> TRUE, sfmt |-> 0, match |-> FALSE]

\* start()/stop() repetitions: n completed, mid after a start(), pure while
\* nothing else was called within a repetition and the device refused nothing
CycAfter(op, nfaults) ==
  IF ~cyc.pure \/ nfaults > 0 THEN [n |-> 0, mid |-> FALSE, pure |-> FALSE]
  ELSE IF op = "start" THEN
         IF cyc.mid THEN [n |-> 0, mid |-> FALSE, pure |-> FALSE]
         ELSE [cyc EXCEPT !.mid = TRUE]
  ELSE IF op = "stop" THEN
         IF cyc.mid THEN [cyc EXCEPT !.mid = FALSE, !.n = Min(cyc.n + 1, MaxCycles)]
         ELSE [n |-> 0, mid |-> FALSE, pure |-> FALSE]
  ELSE IF cyc.mid THEN [n |-> 0, mid |-> FALSE, pure |-> FALSE] ELSE cyc

\* the call returns r after nf refusals by the device
Return(r, nf) ==
  /\ faults + nf <= MaxFaults
  /\ faults' = faults + nf
  /\ ret' = r
  /\ prev' = IF r.op \in FormatOps /\ ret.op = r.op /\ ret.arg = r.arg
             THEN [op |-> ret.op, arg |-> ret.arg, ok |-> ret.ok, sfmt |-> ret.sfmt,
                   match |-> ret.match]
             ELSE NoPrev
  /\ cyc' = CycAfter(r.op, faults + nf)

----------------------------------------------------------------------------
InitSession ==
  /\ fd_ = NoFd
  /\ cur_data_format_ = ZeroFormat
  /\ buffers_ = <<>>
  /\ devFormat \in InitialFormats
  /\ streamOn = FALSE
  /\ kbufs = 0
  /\ kbufLen = 0
  /\ kqueued = {}
  /\ mmapCount = 0
  /\ faults = 0
  /\ pc = "idle"
  /\ capBuf = 0
  /\ ret = Result("none", TRUE, "none")
  /\ prev = NoPrev
  /\ cyc = [n |-> 0, mid |-> FALSE, pure |-> TRUE]
  /\ capabilities_ = "zero"
  /\ image_formats_ = <<>>
  /\ controls_ = <<>>
  /\ queryctrl = [id |-> 0, next |-> FALSE]
  /\ queries = 0
  /\ devValue = [id \in DOMAIN devControls |-> devControls[id].default]

\* where the owner of the session is: at one of its steps (at), in the loop
\* over the controls (i), with the size it was asked for (arg)
At(at, i, arg) == [at |-> at, i |-> i, arg |-> arg]

InitOwner ==
  /\ mpc = At("construct", 0, <<>>)
  /\ canceled_ = FALSE
  /\ thread = "none"
  /\ img = "none"

\* a session just constructed, on one of the devices explored for streaming
Init == devControls \in StreamingTables /\ InitSession /\ InitOwner

----------------------------------------------------------------------------
(* V4l2CameraDevice::open, up to the loop of listControls() *)

\* listImageFormats(): VIDIOC_ENUM_FMT by index until the device reports no more
ListImageFormats == <<FourCC(YUYV), FourCC(MJPG)>>

Open ==
  /\ pc = "idle"
  /\ fd_ = NoFd
  /\ \E opened \in Answers :
       IF ~opened
       THEN /\ Return(Result("open", FALSE, "open"), 1)
            /\ UNCHANGED <<fd_, cur_data_format_, pc, capabilities_, image_formats_,
                           controls_, queryctrl, queries>>
       ELSE \E querycap \in Answers :
            \E gfmt \in (IF faults + Fault(TRUE, querycap) < MaxFaults
                         THEN BOOLEAN ELSE {TRUE}) :
              /\ fd_' = DevFd
              \* the result of VIDIOC_QUERYCAP is ignored
              /\ capabilities_' = IF querycap THEN "filled" ELSE capabilities_
              \* the result of VIDIOC_G_FMT is ignored: formatReq stays zeroed
              /\ cur_data_format_' = PixelFormatOf(IF gfmt THEN devFormat ELSE ZeroPix)
              /\ image_formats_' = ListImageFormats
              /\ controls_' = <<>>
              /\ queryctrl' = [id |-> V4L2_CID_USER_CLASS, next |-> TRUE]
              /\ queries' = 0
              /\ pc' = "listControls"
              /\ faults' = faults + Fault(TRUE, querycap) + Fault(TRUE, gfmt)
              /\ UNCHANGED <<ret, prev, cyc>>
  /\ UNCHANGED <<buffers_, devFormat, streamOn, kbufs, kbufLen, kqueued, mmapCount,
                 capBuf, devControls, devValue>>

(* V4l2CameraDevice::listControls, one action per turn of its loop *)

\* the Control built from the answer to the query; the menu items are those
\* of minimum..maximum that VIDIOC_QUERYMENU reports
Control(id, c) ==
  [id |-> id, type |-> c.type, minimum |-> c.minimum, maximum |-> c.maximum,
   defaultValue |-> c.default,
   menuItems |-> IF c.type = "MENU" THEN c.items \cap (c.minimum..c.maximum) ELSE {}]

\* the query that follows a disabled control: the `continue` leaves queryctrl
\* as the driver filled it, with the id of that control and no NEXT_CTRL bit
AfterDisabled(id) == [id |-> id, next |-> FALSE]

\* the query that follows a listed control
AfterListed(id) == [id |-> id, next |-> TRUE]

\* one VIDIOC_QUERYCTRL of the loop and what follows it; when the request
\* fails the loop ends and open() returns true
ListControlsQuery ==
  /\ pc = "listControls"
  /\ queries' = Min(queries + 1, MaxQueries)
  /\ LET found == QueryCandidates(devControls, queryctrl)
     IN IF found = {}
        THEN /\ pc' = "idle"
             /\ Return(Result("open", TRUE, "none"), 0)
             /\ UNCHANGED <<controls_, queryctrl>>
        ELSE LET id == MinOf(found)
             IN /\ IF devControls[id].disabled
                   THEN /\ queryctrl' = AfterDisabled(id)
                        /\ controls_' = controls_
                   ELSE /\ queryctrl' = AfterListed(id)
                        /\ controls_' = Append(controls_, Control(id, devControls[id]))
                /\ UNCHANGED <<pc, ret, prev, cyc, faults>>
  /\ UNCHANGED <<fd_, cur_data_format_, buffers_, devFormat, streamOn, kbufs, kbufLen,
                 kqueued, mmapCount, capBuf, capabilities_, image_formats_, devControls,
                 devValue>>

----------------------------------------------------------------------------
(* V4l2CameraDevice::requestDataFormat *)

\* a session that keeps the values it asked for
StoredFormat_requested(format, reported) == format

\* the format kept after a successful VIDIOC_S_FMT: formatReq.fmt.pix as the
\* device filled it in
StoredFormat(format, reported) == PixelFormatOf(reported)

\* the API refuses VIDIOC_S_FMT while buffers are allocated (EBUSY)
SFmtAllowed == kbufs = 0

\* sfmtOk: the device accepts the request; reported: what it made active
RequestDataFormat(format, sfmtOk, reported) ==
  IF ~sfmtOk
  THEN [ok |-> FALSE, cur |-> cur_data_format_, dev |-> devFormat]
  ELSE [ok |-> TRUE, cur |-> StoredFormat(format, reported), dev |-> reported]

\* the stored format f holds the values op asked for in dataFormat
Wanted(op, f, dataFormat) ==
  IF op = "requestImageSize"
  THEN f.width = dataFormat.width /\ f.height = dataFormat.height
  ELSE f.pixelFormat = dataFormat.pixelFormat

\* the caller's request for dataFormat, on behalf of op(arg)
Negotiate(op, arg, dataFormat) ==
  \E sfmtOk \in AnswersIf(SFmtAllowed) :
  \E reported \in DriverAdjust(dataFormat.pixelFormat, dataFormat.width, dataFormat.height) :
    LET r == RequestDataFormat(dataFormat, sfmtOk, reported)
    IN /\ cur_data_format_' = r.cur
       /\ devFormat' = r.dev
       /\ Return(Call(op, arg, r.ok, IF r.ok THEN "none" ELSE "sfmt", 1, -1,
                      Wanted(op, r.cur, dataFormat), NoImage),
                 Fault(SFmtAllowed, sfmtOk))

(* V4L2Camera::requestImageSize *)

\* a comparison that reads size[0] twice
SameSize_index(dataFormat, size) == dataFormat.width = size[1] /\ dataFormat.height = size[1]

\* the test that the camera already runs at the given size
SameSize(dataFormat, size) == dataFormat.width = size[1] /\ dataFormat.height = size[2]

SizeInputs == {<<640, 480>>, <<320, 240>>, <<641, 480>>, <<640>>}

RequestImageSize(size) ==
  /\ fd_ # NoFd
  /\ IF Len(size) # 2
     THEN /\ Return(Call("requestImageSize", size, FALSE, "size", 0, -1, FALSE, NoImage), 0)
          /\ UNCHANGED <<cur_data_format_, devFormat>>
     ELSE IF SameSize(cur_data_format_, size)
     THEN /\ Return(Call("requestImageSize", size, TRUE, "none", 0, -1, TRUE, NoImage), 0)
          /\ UNCHANGED <<cur_data_format_, devFormat>>
     ELSE LET dataFormat == [cur_data_format_ EXCEPT !.width = size[1], !.height = size[2]]
          IN Negotiate("requestImageSize", size, dataFormat)
  /\ UNCHANGED <<fd_, buffers_, streamOn, kbufs, kbufLen, kqueued, mmapCount, pc, capBuf>>
  /\ UNCHANGED ctlVars

(* V4L2Camera::requestPixelFormat *)
SameCode(dataFormat, code) == dataFormat.pixelFormat = code

FourccInputs == {YUYV, MJPG, RGB3, YUV}

RequestPixelFormat(fourcc) ==
  /\ fd_ # NoFd
  /\ IF Len(fourcc) # 4
     THEN /\ Return(Call("requestPixelFormat", fourcc, FALSE, "fourcc", 0, -1, FALSE,
                         NoImage), 0)
          /\ UNCHANGED <<cur_data_format_, devFormat>>
     ELSE IF SameCode(cur_data_format_, FourCC(fourcc))
     THEN /\ Return(Call("requestPixelFormat", fourcc, TRUE, "none", 0, -1, TRUE, NoImage), 0)
          /\ UNCHANGED <<cur_data_format_, devFormat>>
     ELSE LET dataFormat == [cur_data_format_ EXCEPT !.pixelFormat = FourCC(fourcc)]
          IN Negotiate("requestPixelFormat", fourcc, dataFormat)
  /\ UNCHANGED <<fd_, buffers_, streamOn, kbufs, kbufLen, kqueued, mmapCount, pc, capBuf>>
  /\ UNCHANGED ctlVars

----------------------------------------------------------------------------
(* Buffers *)

\* an entry of buffers_; start is "MAPPED" (a live region), "MAP_FAILED", or
\* "NULL" for an entry the allocation loop never reached
Buffer(index, start, length) == [index |-> index, start |-> start, length |-> length]

RECURSIVE NumMapped(_)
NumMapped(bufs) ==
  IF bufs = <<>> THEN 0
  ELSE (IF Head(bufs).start = "MAPPED" THEN 1 ELSE 0) + NumMapped(Tail(bufs))

(* V4l2CameraDevice::initMemoryMapping *)

\* a test that lets a pool of one buffer through
InsufficientBuffers_one(count) == count < 1

\* the test on req.count after VIDIOC_REQBUFS
InsufficientBuffers(count) == count < 2

\* the API refuses VIDIOC_REQBUFS while streaming or while buffers are mapped
ReqbufsAllowed(maps) == ~streamOn /\ maps = 0

\* VIDIOC_REQBUFS with count 4: the counts the device may grant, and -1 for a
\* refused request (its result is ignored and req.count keeps the value asked)
ReqbufsOutcomes ==
  IF ~ReqbufsAllowed(mmapCount) THEN {-1}
  ELSE IF faults < MaxFaults THEN -1..MaxGrant ELSE 2..MaxGrant

\* a grant below 2 or a refusal the API does not force is the device's fault
ReqbufsFault(grant) == IF ReqbufsAllowed(mmapCount) /\ grant < 2 THEN 1 ELSE 0

\* the number of buffers mapped before the first mmap fails (count when none
\* fails).  VIDIOC_QUERYBUF fails for an index the kernel does not hold, which
\* leaves length 0, and mmap of length 0 fails.
MapOutcomes(count, kb, nf) ==
  IF faults + nf < MaxFaults THEN 0..Min(count, kb) ELSE {Min(count, kb)}

\* grant: the outcome of VIDIOC_REQBUFS, nmap: the outcome of the mmap loop
InitMemoryMapping(grant, nmap) ==
  LET count == IF grant >= 0 THEN grant ELSE NumBuffersRequested
      kb == IF grant >= 0 THEN grant ELSE kbufs
      klen == IF grant >= 0 THEN devFormat.sizeimage ELSE kbufLen
      kq == IF grant >= 0 THEN {} ELSE kqueued
  IN IF InsufficientBuffers(count)
     THEN [ok |-> FALSE, err |-> "insufficient", bufs |-> buffers_, maps |-> mmapCount,
           kb |-> kb, klen |-> klen, kq |-> kq, nf |-> ReqbufsFault(grant)]
     ELSE [ok |-> nmap = count,
           err |-> IF nmap = count THEN "none" ELSE "mmap",
           bufs |-> [i \in 1..count |->
                       IF i <= nmap THEN Buffer(i - 1, "MAPPED", klen)
                       ELSE IF i = nmap + 1
                            THEN Buffer(i - 1, "MAP_FAILED", IF i <= kb THEN klen ELSE 0)
                            ELSE Buffer(0, "NULL", 0)],
           maps |-> mmapCount + nmap,
           kb |-> kb, klen |-> klen, kq |-> kq,
           nf |-> ReqbufsFault(grant) + (IF nmap < Min(count, kb) THEN 1 ELSE 0)]

(* V4l2CameraDevice::start *)

\* the number of buffers queued before the first VIDIOC_QBUF fails (Len(bufs)
\* when none fails); the API refuses a buffer it does not hold or that is queued
RECURSIVE QueueLimit(_, _, _)
QueueLimit(bufs, kb, kq) ==
  IF bufs = <<>> THEN 0
  ELSE IF Head(bufs).index >= kb \/ Head(bufs).index \in kq THEN 0
  ELSE 1 + QueueLimit(Tail(bufs), kb, kq \cup {Head(bufs).index})

QueueOutcomes(bufs, kb, kq, nf) ==
  IF faults + nf < MaxFaults THEN 0..QueueLimit(bufs, kb, kq)
  ELSE {QueueLimit(bufs, kb, kq)}

Start ==
  /\ fd_ # NoFd
  /\ \E grant \in ReqbufsOutcomes :
     \E nmap \in MapOutcomes(IF grant >= 0 THEN grant ELSE NumBuffersRequested,
                             IF grant >= 0 THEN grant ELSE kbufs,
                             ReqbufsFault(grant)) :
       LET m == InitMemoryMapping(grant, nmap)
       IN /\ m.maps <= MaxMmap
          /\ buffers_' = m.bufs
          /\ mmapCount' = m.maps
          /\ kbufs' = m.kb
          /\ kbufLen' = m.klen
          /\ IF ~m.ok
             THEN /\ kqueued' = m.kq
                  /\ streamOn' = streamOn
                  /\ Return(Call("start", <<>>, FALSE, m.err, 0, grant, FALSE, NoImage), m.nf)
             ELSE \E nq \in QueueOutcomes(m.bufs, m.kb, m.kq, m.nf) :
                    /\ kqueued' = m.kq \cup {m.bufs[i].index : i \in 1..nq}
                    /\ IF nq < Len(m.bufs)
                       THEN /\ streamOn' = streamOn
                            /\ Return(Call("start", <<>>, FALSE, "qbuf", 0, grant, FALSE,
                                           NoImage),
                                      m.nf + (IF nq < QueueLimit(m.bufs, m.kb, m.kq)
                                              THEN 1 ELSE 0))
                       ELSE \E on \in BOOLEAN :
                              /\ streamOn' = (streamOn \/ on)
                              /\ Return(Call("start", <<>>, on,
                                             IF on THEN "none" ELSE "streamon", 0, grant,
                                             FALSE, NoImage),
                                        m.nf + Fault(TRUE, on))
  /\ UNCHANGED <<fd_, cur_data_format_, devFormat, pc, capBuf>>
  /\ UNCHANGED ctlVars

(* V4l2CameraDevice::stop *)

\* a stop() that clears the pool without unmapping it
ReleaseBuffers_noUnmap(bufs, maps) == [bufs |-> <<>>, maps |-> maps]

\* the munmap loop and buffers_.clear(): the pool and the mapped regions afterwards
ReleaseBuffers(bufs, maps) == [bufs |-> <<>>, maps |-> maps - NumMapped(bufs)]

Stop ==
  /\ fd_ # NoFd
  /\ \E off \in Answers :
       IF ~off
       THEN /\ Return(Result("stop", FALSE, "streamoff"), 1)
            /\ UNCHANGED <<buffers_, streamOn, kbufs, kbufLen, kqueued, mmapCount>>
       ELSE LET rel == ReleaseBuffers(buffers_, mmapCount)
            IN /\ streamOn' = FALSE
               /\ kqueued' = {}
               /\ buffers_' = rel.bufs
               /\ mmapCount' = rel.maps
               \* VIDIOC_REQBUFS with count 0, its result ignored; the API
               \* refuses it while regions are mapped
               /\ \E freed \in AnswersIf(rel.maps = 0) :
                    /\ kbufs' = IF freed THEN 0 ELSE kbufs
                    /\ kbufLen' = IF freed THEN 0 ELSE kbufLen
                    /\ Return(Result("stop", TRUE, "none"), Fault(rel.maps = 0, freed))
  /\ UNCHANGED <<fd_, cur_data_format_, devFormat, pc, capBuf>>
  /\ UNCHANGED ctlVars

----------------------------------------------------------------------------
(* V4l2CameraDevice::capture, one action per step *)

\* a capture() that goes on to VIDIOC_QBUF after a failed VIDIOC_DQBUF
AfterFailedDequeue_requeue(kq, index) == kq \cup {index}

\* the return on a failed VIDIOC_DQBUF: the buffers the device owns afterwards
AfterFailedDequeue(kq, index) == kq

\* VIDIOC_DQBUF: the device hands back a buffer it has filled; the API refuses
\* the request when the stream is off
CaptureDequeue ==
  /\ pc = "idle"
  /\ fd_ # NoFd
  /\ \/ /\ streamOn
        /\ \E i \in kqueued :
             /\ capBuf' = i
             /\ kqueued' = kqueued \ {i}
        /\ pc' = "requeue"
        /\ cyc' = CycAfter("capture", faults)
        /\ UNCHANGED <<ret, prev, faults>>
     \/ /\ kqueued' = AfterFailedDequeue(kqueued, capBuf)
        /\ Return(Result("capture", FALSE, "dqbuf"), IF streamOn THEN 1 ELSE 0)
        /\ UNCHANGED <<pc, capBuf>>
  /\ UNCHANGED <<fd_, cur_data_format_, buffers_, devFormat, streamOn, kbufs, kbufLen,
                 mmapCount>>
  /\ UNCHANGED ctlVars

\* the API refuses VIDIOC_QBUF for a buffer the kernel does not hold or that
\* is queued
QbufAllowed(index) == index < kbufs /\ index \notin kqueued

\* VIDIOC_QBUF of the buffer just dequeued
CaptureRequeue ==
  /\ pc = "requeue"
  /\ \E queued \in AnswersIf(QbufAllowed(capBuf)) :
       IF queued
       THEN /\ kqueued' = kqueued \cup {capBuf}
            /\ pc' = "copy"
            /\ UNCHANGED <<ret, prev, cyc, faults>>
       ELSE /\ kqueued' = kqueued
            /\ pc' = "idle"
            /\ Return(Result("capture", FALSE, "requeue"),
                      Fault(QbufAllowed(capBuf), queued))
  /\ UNCHANGED <<fd_, cur_data_format_, buffers_, devFormat, streamOn, kbufs, kbufLen,
                 mmapCount, capBuf>>
  /\ UNCHANGED ctlVars

\* an Image sized as one byte per pixel
MakeImage_pixels(format) ==
  [width |-> format.width, height |-> format.height, step |-> format.bytesPerLine,
   encoding |-> IF format.pixelFormat = V4L2_PIX_FMT_YUYV THEN "yuv422_yuy2" ELSE "",
   size |-> format.width * format.height]

\* the Image built from cur_data_format_
MakeImage(format) ==
  [width |-> format.width, height |-> format.height, step |-> format.bytesPerLine,
   encoding |-> IF format.pixelFormat = V4L2_PIX_FMT_YUYV THEN "yuv422_yuy2" ELSE "",
   size |-> format.imageByteSize]

\* std::copy reads img->data.size() bytes from buffers_[buf.index].start
CopySourceValid(bufs, index, n) ==
  /\ index < Len(bufs)
  /\ bufs[index + 1].start = "MAPPED"
  /\ n <= bufs[index + 1].length

\* the copy out of the buffer and the return of the image; a read outside a
\* mapped region is undefined: the call returns the image or the process dies
CaptureCopy ==
  /\ pc = "copy"
  /\ LET image == MakeImage(cur_data_format_)
     IN \/ /\ pc' = "idle"
           /\ Return(Call("capture", <<>>, TRUE, "none", 0, -1, FALSE, image), 0)
        \/ /\ ~CopySourceValid(buffers_, capBuf, image.size)
           /\ pc' = "crashed"
           /\ Return(Result("capture", FALSE, "segv"), 0)
  /\ UNCHANGED <<fd_, cur_data_format_, buffers_, devFormat, streamOn, kbufs, kbufLen,
                 kqueued, mmapCount, capBuf>>
  /\ UNCHANGED ctlVars

----------------------------------------------------------------------------
(* V4l2CameraDevice::setControlValue *)

ControlRequest(req, id, value) == [req |-> req, id |-> id, value |-> value]

\* a setControlValue that sends the value without asking first
ControlRequests_noQuery(id, value, supported) ==
  <<ControlRequest("VIDIOC_S_CTRL", id, value)>>

\* the requests setControlValue(id, value) issues, in order; supported: the
\* answer to the query
ControlRequests(id, value, supported) ==
  <<ControlRequest("VIDIOC_QUERYCTRL", id, 0)>>
    \o (IF supported THEN <<ControlRequest("VIDIOC_S_CTRL", id, value)>> ELSE <<>>)

\* the call's record: param is the value the caller asked for, requests the
\* requests issued, accepted whether the device took a VIDIOC_S_CTRL
ControlCall(id, param, ok, err, requests, accepted) ==
  [op |-> "setControlValue", arg |-> <<id>>, ok |-> ok, err |-> err, sfmt |-> 0,
   grant |-> -1, match |-> FALSE, img |-> NoImage, param |-> param,
   requests |-> requests, accepted |-> accepted]

\* a successful VIDIOC_QUERYCTRL writes a v4l2_queryctrl (68 bytes) over the
\* v4l2_control ctrl (8 bytes) on the stack of setControlValue, which is
\* undefined: the bytes after ctrl are unused and the call goes on, or they
\* hold what the return needs and the process dies
QueryOverrun == {"unused", "crash"}

\* VIDIOC_S_CTRL: the driver stores a value in range; one out of range it
\* refuses (ERANGE) or stores clamped
SetCtrlOutcomes(c, value) ==
  IF c.disabled THEN {[ok |-> FALSE, stored |-> value, fault |-> 0]}
  ELSE IF value >= c.minimum /\ value <= c.maximum
  THEN {[ok |-> a, stored |-> value, fault |-> Fault(TRUE, a)] : a \in Answers}
  ELSE {[ok |-> FALSE, stored |-> value, fault |-> 0],
        [ok |-> TRUE, stored |-> IF value < c.minimum THEN c.minimum ELSE c.maximum,
         fault |-> 0]}

\* VIDIOC_S_CTRL requests of a call
SetRequests(requests) ==
  {i \in 1..Len(requests) : requests[i].req = "VIDIOC_S_CTRL"}

\* the device's answer to the requests of a call: none of them a VIDIOC_S_CTRL
NoSetOutcome(value) == [ok |-> FALSE, stored |-> value, fault |-> 0]

\* setControlValue(id, value) on behalf of a caller that asked for param; id is
\* the id of a control of controls_, which the device has
SetControlValue(id, value, param) ==
  \E supported \in Answers :
  \E run \in (IF supported THEN QueryOverrun ELSE {"unused"}) :
    LET reqs == ControlRequests(id, value, supported)
    IN IF run = "crash"
       THEN /\ pc' = "crashed"
            /\ Return(ControlCall(id, param, FALSE, "segv", <<reqs[1]>>, FALSE), 0)
            /\ UNCHANGED devValue
       ELSE \E o \in (IF SetRequests(reqs) = {} THEN {NoSetOutcome(value)}
                      ELSE SetCtrlOutcomes(devControls[id], value)) :
              /\ devValue' = IF o.ok THEN [devValue EXCEPT ![id] = o.stored] ELSE devValue
              /\ Return(ControlCall(id, param, supported /\ o.ok,
                                    IF ~supported THEN "queryctrl"
                                    ELSE IF o.ok THEN "none" ELSE "sctrl",
                                    reqs, o.ok),
                        Fault(TRUE, supported) + o.fault)
              /\ UNCHANGED pc

(* V4L2Camera::handleParameter, the parameters named after a control *)

\* the parameter values tried: type and value (a bool as 0 or 1)
ParamInputs ==
  {[type |-> "PARAMETER_BOOL", value |-> Widen(0)],
   [type |-> "PARAMETER_BOOL", value |-> Widen(1)],
   [type |-> "PARAMETER_INTEGER", value |-> Widen(7)],
   [type |-> "PARAMETER_INTEGER", value |-> Widen(300)],
   [type |-> "PARAMETER_INTEGER", value |-> Int64(1, 7)],
   [type |-> "PARAMETER_DOUBLE", value |-> Widen(0)]}

\* control_name_to_id_ holds the controls of controls_ (all of a supported type)
HandleControlParameter(i, param) ==
  /\ fd_ # NoFd
  /\ i \in 1..Len(controls_)
  /\ IF param.type \in {"PARAMETER_BOOL", "PARAMETER_INTEGER"}
     THEN SetControlValue(controls_[i].id, Narrow(param.value), param.value)
     ELSE /\ Return(Result("handleParameter", FALSE, "type"), 0)
          /\ UNCHANGED <<devValue, pc>>
  /\ UNCHANGED <<fd_, cur_data_format_, buffers_, devFormat, streamOn, kbufs, kbufLen,
                 kqueued, mmapCount, capBuf, capabilities_, image_formats_, controls_,
                 queryctrl, queries, devControls>>

----------------------------------------------------------------------------
\* the devices the streaming calls are explored on answer VIDIOC_QUERYCAP
AnswersQuerycap == fd_' # NoFd => capabilities_' = "filled"

\* one caller: a call starts when the one before it has returned
OneCaller == pc = "idle" /\ UNCHANGED nodeVars

Next ==
  \/ OneCaller /\ Open /\ AnswersQuerycap
  \/ ListControlsQuery /\ UNCHANGED nodeVars
  \/ \E size \in SizeInputs : OneCaller /\ RequestImageSize(size)
  \/ \E fourcc \in FourccInputs : OneCaller /\ RequestPixelFormat(fourcc)
  \/ OneCaller /\ Start
  \/ OneCaller /\ Stop
  \/ CaptureDequeue /\ UNCHANGED nodeVars
  \/ CaptureRequeue /\ UNCHANGED nodeVars
  \/ CaptureCopy /\ UNCHANGED nodeVars

Spec == Init /\ [][Next]_vars

\* the control calls, on every device of ControlTables
InitControls == devControls \in ControlTables /\ InitSession /\ InitOwner

NextControls ==
  \/ OneCaller /\ Open
  \/ ListControlsQuery /\ UNCHANGED nodeVars
  \/ \E i \in 1..Cardinality(DevControlIds), param \in ParamInputs :
       OneCaller /\ HandleControlParameter(i, param)

SpecControls == InitControls /\ [][NextControls]_vars
----------------------------------------------------------------------------
(* V4L2Camera: its constructor, its parameter callback and its destructor   *)
(* on one thread, its capture thread on another.  A call on the session is  *)
(* one step, capture() and open() several; the steps of the two threads     *)
(* interleave, as nothing in the node orders them.                          *)

Alive == pc # "crashed"

\* no step of this thread changes the fields of the other one
OwnerStep(at, i, arg) == Alive /\ mpc' = At(at, i, arg) /\ UNCHANGED <<canceled_, thread, img>>
ThreadStep == thread = "running" /\ UNCHANGED <<mpc, canceled_, thread>>

\* camera_->open(): on failure the constructor returns
NodeOpen ==
  /\ mpc.at = "construct"
  /\ pc = "idle"
  /\ Open
  /\ IF fd_' = NoFd THEN OwnerStep("unopened", 0, <<>>) ELSE OwnerStep("open", 0, <<>>)

NodeListControls ==
  /\ mpc.at = "open"
  /\ ListControlsQuery
  /\ IF pc' = "idle" THEN OwnerStep("pixel_format", 0, <<>>) ELSE OwnerStep("open", 0, <<>>)

\* the values of the parameters pixel_format and image_size (the defaults),
\* and the values the parameters are set to while the node runs
PixelFormatParams == {YUYV}
ImageSizeParams == {<<640, 480>>}
SizeParams == {<<320, 240>>, <<640, 480>>}
ControlParams == {[type |-> "PARAMETER_INTEGER", value |-> Widen(7)]}

\* requestPixelFormat(pixel_format) of the constructor
NodeRequestPixelFormat ==
  /\ mpc.at = "pixel_format"
  /\ \E fourcc \in PixelFormatParams : RequestPixelFormat(fourcc)
  /\ OwnerStep("image_size", 0, <<>>)

\* requestImageSize(image_size) of createParameters()
NodeRequestImageSize ==
  /\ mpc.at = "image_size"
  /\ \E size \in ImageSizeParams : RequestImageSize(size)
  /\ OwnerStep("controls", 1, <<>>)

\* the value createParameters() sets a control to: the one it just read from
\* the device, as the parameter of the control's type holds it
DeclaredValue(c, value) == IF c.type = "BOOL" THEN (IF value # 0 THEN 1 ELSE 0) ELSE value

\* one turn of the loop over the controls in createParameters()
NodeDeclareControl ==
  /\ mpc.at = "controls"
  /\ mpc.i <= Len(controls_)
  /\ LET c == controls_[mpc.i]
         value == DeclaredValue(c, devValue[c.id])
     IN SetControlValue(c.id, Narrow(Widen(value)), Widen(value))
  /\ OwnerStep("controls", mpc.i + 1, <<>>)
  /\ UNCHANGED <<fd_, cur_data_format_, buffers_, devFormat, streamOn, kbufs, kbufLen,
                 kqueued, mmapCount, capBuf, capabilities_, image_formats_, controls_,
                 queryctrl, queries, devControls>>

\* camera_->start() of the constructor and the start of the capture thread
NodeStart ==
  /\ mpc.at = "controls"
  /\ mpc.i > Len(controls_)
  /\ Alive
  /\ Start
  /\ mpc' = At("spin", 0, <<>>)
  /\ thread' = IF ret'.ok THEN "running" ELSE "none"
  /\ UNCHANGED <<canceled_, img>>

(* V4L2Camera::handleParameter *)

\* a parameter named after a control
NodeHandleControl ==
  /\ mpc.at = "spin"
  /\ \E i \in 1..Len(controls_), param \in ControlParams : HandleControlParameter(i, param)
  /\ OwnerStep("spin", 0, <<>>)

\* the parameter "size": camera_->stop(), its result unused
NodeHandleSizeStop ==
  /\ mpc.at = "spin"
  /\ Stop
  /\ \E size \in SizeParams : OwnerStep("size_request", 0, size)

\* requestImageSize(param.as_integer_array())
NodeHandleSizeRequest ==
  /\ mpc.at = "size_request"
  /\ RequestImageSize(mpc.arg)
  /\ OwnerStep("size_start", 0, <<>>)

\* camera_->start(), its result unused
NodeHandleSizeStart ==
  /\ mpc.at = "size_start"
  /\ Start
  /\ OwnerStep("spin", 0, <<>>)

(* the capture thread *)

\* rclcpp::ok() && !canceled_.load() holds: the thread enters capture()
NodeLoopTest ==
  /\ thread = "running"
  /\ pc = "idle"
  /\ img = "none"
  /\ ~canceled_
  /\ img' = "capturing"
  /\ UNCHANGED <<fd_, cur_data_format_, buffers_, devFormat, streamOn, kbufs, kbufLen,
                 kqueued, mmapCount, faults, pc, capBuf, ret, prev, cyc, ctlVars, mpc,
                 canceled_, thread>>

\* capture() up to the return of VIDIOC_DQBUF: the descriptor is blocking
\* (O_RDWR), so the request returns when the device has a filled buffer or
\* refuses, and not before
NodeCaptureDequeue ==
  /\ img = "capturing"
  /\ CaptureDequeue
  /\ ThreadStep
  /\ img' = IF pc' = "idle" THEN "null" ELSE img

NodeCaptureRequeue ==
  /\ CaptureRequeue
  /\ ThreadStep
  /\ img' = IF pc' = "idle" THEN "null" ELSE img

NodeCaptureCopy ==
  /\ CaptureCopy
  /\ ThreadStep
  /\ img' = IF pc' = "idle" THEN "frame" ELSE img

\* img->encoding and the publishing of the image; img is not tested, and the
\* use of a null img is undefined: the process dies or the loop goes on
NodePublish ==
  /\ pc = "idle"
  /\ img \in {"null", "frame"}
  /\ ThreadStep
  /\ img' = "none"
  /\ \/ pc' = pc
     \/ img = "null" /\ pc' = "crashed"
  /\ UNCHANGED <<fd_, cur_data_format_, buffers_, devFormat, streamOn, kbufs, kbufLen,
                 kqueued, mmapCount, faults, capBuf, ret, prev, cyc, ctlVars>>

\* the loop ends once canceled_ is set
NodeThreadExit ==
  /\ thread = "running"
  /\ pc = "idle"
  /\ img = "none"
  /\ canceled_
  /\ thread' = "exited"
  /\ UNCHANGED <<fd_, cur_data_format_, buffers_, devFormat, streamOn, kbufs, kbufLen,
                 kqueued, mmapCount, faults, pc, capBuf, ret, prev, cyc, ctlVars, mpc,
                 canceled_, img>>

(* V4L2Camera::~V4L2Camera *)

\* canceled_.store(true)
NodeCancel ==
  /\ mpc.at \in {"spin", "unopened"}
  /\ Alive
  /\ canceled_' = TRUE
  /\ mpc' = At("join", 0, <<>>)
  /\ UNCHANGED <<fd_, cur_data_format_, buffers_, devFormat, streamOn, kbufs, kbufLen,
                 kqueued, mmapCount, faults, pc, capBuf, ret, prev, cyc, ctlVars, thread,
                 img>>

\* capture_thread_.join() when the thread was started, and the end of the
\* destructor: the members are destroyed, the session with them
NodeJoin ==
  /\ mpc.at = "join"
  /\ Alive
  /\ thread # "running"
  /\ mpc' = At("destroyed", 0, <<>>)
  /\ UNCHANGED <<fd_, cur_data_format_, buffers_, devFormat, streamOn, kbufs, kbufLen,
                 kqueued, mmapCount, faults, pc, capBuf, ret, prev, cyc, ctlVars,
                 canceled_, thread, img>>

NextNode ==
  \/ NodeOpen
  \/ NodeListControls
  \/ NodeRequestPixelFormat
  \/ NodeRequestImageSize
  \/ NodeDeclareControl
  \/ NodeStart
  \/ NodeHandleControl
  \/ NodeHandleSizeStop
  \/ NodeHandleSizeRequest
  \/ NodeHandleSizeStart
  \/ NodeLoopTest
  \/ NodeCaptureDequeue
  \/ NodeCaptureRequeue
  \/ NodeCaptureCopy
  \/ NodePublish
  \/ NodeThreadExit
  \/ NodeCancel
  \/ NodeJoin

SpecNode == Init /\ [][NextNode]_vars

\* the steps the capture thread takes without waiting for the device: all
\* but a VIDIOC_DQBUF on a stream that is enabled, which returns at once only
\* when the API refuses it
ThreadRuns ==
  \/ NodeLoopTest
  \/ ~streamOn /\ NodeCaptureDequeue
  \/ NodeCaptureRequeue
  \/ NodeCaptureCopy
  \/ NodePublish
  \/ NodeThreadExit

\* the node with both threads scheduled: a thread that can take a step takes
\* it in the end; the device is not bound to deliver a frame, and nothing
\* binds the owner to set parameters or to destroy the node
SpecNodeFair == SpecNode /\ WF_vars(ThreadRuns) /\ WF_vars(NodeJoin)
----------------------------------------------------------------------------
(* Properties *)

\* a step that is a whole call of start()
StartCall == pc = "idle" /\ pc' = "idle" /\ ret'.op = "start"

\* the last two calls were the same format request, with a width and a height
\* (a four character code)
SameRequestTwice ==
  /\ ret.op \in FormatOps
  /\ prev.op = ret.op
  /\ prev.arg = ret.arg
  /\ Len(ret.arg) = (IF ret.op = "requestImageSize" THEN 2 ELSE 4)

\* C1: in every capture() the copy out of the dequeued buffer happens before
\* that buffer is requeued: when the copy runs, the buffer is not owned by the
\* device.
C1_CopyBeforeRequeue == pc = "copy" => capBuf \notin kqueued

\* C2: after stop() returns, also when the stream-disable request failed, the
\* pool is empty and none of its buffers is mapped.
C2_StopReleasesPool == ret.op = "stop" => (buffers_ = <<>> /\ NumMapped(buffers_) = 0)

\* C3: when start() fails because a buffer could not be queued or the stream
\* could not be enabled, the stream is off and no buffer of the pool is mapped.
C3_FailedStartUnmaps ==
  (ret.op = "start" /\ ret.err \in {"qbuf", "streamon"})
    => (~streamOn /\ NumMapped(buffers_) = 0)

\* C4: when mapping a buffer fails during the pool allocation, the number of
\* mapped regions after the failed call equals the number before it.
C4_FailedMapRollsBack ==
  [][(StartCall /\ ret'.err = "mmap") => mmapCount' = mmapCount]_vars

\* C5: when the device grants fewer than 2 buffers, start() fails, maps no
\* memory, queues no buffer and leaves the stream as it is; and whenever the
\* stream is enabled the pool holds at least 2 buffers.
C5_AtLeastTwoBuffers ==
  /\ [](streamOn => Len(buffers_) >= 2)
  /\ [][(StartCall /\ ret'.grant \in {0, 1})
          => (/\ ~ret'.ok
              /\ mmapCount' = mmapCount
              /\ buffers_' = buffers_
              /\ kqueued' \subseteq kqueued
              /\ streamOn' = streamOn)]_vars

C5_Witness == ret.op = "start" /\ ret.grant = 1 /\ ~ret.ok /\ ret.err = "insufficient"

\* C6: on a device that accepts every request, after n >= 1 repetitions of
\* start() followed immediately by stop() the stream is off, the pool is empty
\* and nothing is mapped; and the next start() succeeds with a pool of at least
\* 2 buffers, all of them mapped.
C6_RestartCycles ==
  /\ (cyc.pure /\ ~cyc.mid /\ cyc.n >= 1)
       => (fd_ # NoFd /\ ~streamOn /\ buffers_ = <<>> /\ mmapCount = 0)
  /\ (cyc.pure /\ cyc.mid /\ cyc.n >= 1)
       => (/\ ret.op = "start" /\ ret.ok
           /\ streamOn
           /\ Len(buffers_) >= 2
           /\ NumMapped(buffers_) = Len(buffers_)
           /\ mmapCount = Len(buffers_))

C6_Witness == cyc.pure /\ cyc.mid /\ cyc.n >= 2 /\ ret.op = "start" /\ ret.ok

\* C7: after every successful requestDataFormat, also when the device replaced
\* the requested code or size, the stored current format is the format active
\* in the device.
C7_StoredIsDeviceFormat ==
  (ret.op \in FormatOps /\ ret.sfmt = 1 /\ ret.ok)
    => cur_data_format_ = PixelFormatOf(devFormat)

C7_Witness ==
  /\ ret.op = "requestImageSize" /\ ret.sfmt = 1 /\ ret.ok
  /\ ret.arg = <<641, 480>>
  /\ cur_data_format_.width # 641

\* C8 as stated, in the case where the first call changes the format: of two
\* sequential format requests with identical width, height and code, the first
\* having issued its device request and succeeded, the second issues no device
\* request (the two produce exactly one) and succeeds.
C8_OneRequestForTwoCalls ==
  (SameRequestTwice /\ prev.sfmt = 1 /\ prev.ok)
    => (prev.sfmt + ret.sfmt = 1 /\ ret.sfmt = 0 /\ ret.ok)

\* C8 amended: when the first of two sequential identical format requests
\* succeeds and leaves the stored format with the requested width and height
\* (code), the second call issues no device request and succeeds, so the two
\* calls produce at most one device request.
C8_NoRequestWhenActive ==
  (SameRequestTwice /\ prev.ok /\ prev.match)
    => (ret.sfmt = 0 /\ ret.ok /\ prev.sfmt + ret.sfmt <= 1)

C8_Witness == SameRequestTwice /\ prev.ok /\ prev.match /\ prev.sfmt = 1 /\ ret.sfmt = 0

\* C9: after a format request that the device rejects, the stored current
\* format equals the format active in the device.
C9_RejectedRequestRereads ==
  (ret.op \in FormatOps /\ ret.sfmt = 1 /\ ~ret.ok)
    => cur_data_format_ = PixelFormatOf(devFormat)

\* C10: every frame returned by capture() has the payload length, the width,
\* the height and the stride of the current format.
C10_FrameMatchesFormat ==
  (ret.op = "capture" /\ ret.ok)
    => (/\ ret.img.size = cur_data_format_.imageByteSize
        /\ ret.img.width = cur_data_format_.width
        /\ ret.img.height = cur_data_format_.height
        /\ ret.img.step = cur_data_format_.bytesPerLine)

C10_Witness ==
  /\ ret.op = "capture" /\ ret.ok
  /\ ret.img.encoding = "yuv422_yuy2"
  /\ ret.img.size = 640 * 480 * 2

\* a step that is a whole call of capture(): the one whose dequeue failed
FailedDequeueCall == pc = "idle" /\ pc' = "idle" /\ ret'.op = "capture"

\* C11: when the dequeue request fails, capture() returns no frame, requeues
\* nothing and dequeues nothing more, and leaves the pool, the mapped regions
\* and the current format as they were.
C11_FailedDequeueReturns ==
  [][FailedDequeueCall
       => (/\ ret'.err = "dqbuf"
           /\ ~ret'.ok
           /\ ret'.img = NoImage
           /\ kqueued' = kqueued
           /\ buffers_' = buffers_
           /\ mmapCount' = mmapCount
           /\ cur_data_format_' = cur_data_format_)]_vars

C11_Witness ==
  /\ ret.op = "capture" /\ ret.err = "dqbuf" /\ pc = "idle"
  /\ streamOn /\ kqueued # {} /\ NumMapped(buffers_) >= 2

\* a step that is a whole call of setControlValue()
SetControlCall ==
  pc = "idle" /\ pc' \in {"idle", "crashed"} /\ ret'.op = "setControlValue"

\* C12: for every control and every value asked for through a parameter, also
\* one outside the control's range, setControlValue sends the device exactly
\* that value, and returns success exactly when the device accepts it.
C12_ForwardsRequestedValue ==
  ret.op = "setControlValue"
    => (/\ \A i \in SetRequests(ret.requests) : Widen(ret.requests[i].value) = ret.param
        /\ ret.ok = ret.accepted)

\* C13: setControlValue issues the control query before any set request, and
\* when the query fails it returns failure without a set request and the
\* device's values are unchanged.
C13_QueryBeforeSet ==
  /\ [](ret.op = "setControlValue"
          => (/\ ret.requests[1].req = "VIDIOC_QUERYCTRL"
              /\ \A i \in SetRequests(ret.requests) : i > 1
              /\ ret.err = "queryctrl" => (SetRequests(ret.requests) = {} /\ ~ret.ok)))
  /\ [][(SetControlCall /\ ret'.err = "queryctrl") => devValue' = devValue]_vars

C13_Witness ==
  /\ ret.op = "setControlValue" /\ ret.err = "queryctrl"
  /\ Len(ret.requests) = 1
  /\ \E id \in DOMAIN devValue : devValue[id] # devControls[id].default

\* the controls of the device that are not disabled
EnabledControls == {id \in DOMAIN devControls : ~devControls[id].disabled}

\* C14: on a device with finitely many controls, some of them disabled,
\* listControls() terminates: it issues at most one query for each control and
\* the one that ends the loop; and the list it leaves holds each enabled
\* control exactly once and no disabled control.
C14_ListControlsTerminates ==
  /\ queries <= Cardinality(DOMAIN devControls) + 1
  /\ (pc = "idle" /\ ret.op = "open" /\ ret.ok)
       => (/\ {controls_[i].id : i \in 1..Len(controls_)} = EnabledControls
           /\ Len(controls_) = Cardinality(EnabledControls))

\* C15: open() fails when the device path cannot be opened or when the
\* capability query fails; after a failed capability query no format is
\* cached, nothing is enumerated and the session is not opened.
C15_FailedQueryFailsOpen ==
  /\ (pc = "idle" /\ ret.op = "open" /\ ret.err = "open") => (~ret.ok /\ fd_ = NoFd)
  /\ (fd_ # NoFd /\ capabilities_ = "zero")
       => (/\ cur_data_format_ = ZeroFormat
           /\ image_formats_ = <<>>
           /\ controls_ = <<>>
           /\ pc # "listControls"
           /\ ~(ret.op = "open" /\ ret.ok))

\* a step in which start() runs the allocation of initMemoryMapping (the
\* device granted enough buffers, or its answer was not looked at)
AllocationStep ==
  /\ mpc.at \in {"controls", "size_start"}
  /\ mpc'.at = "spin"
  /\ ret'.op = "start"
  /\ ret'.err # "insufficient"

\* C16: the pool is allocated only while the stream is disabled and the pool
\* before it has been unmapped and released, also when start() follows a
\* stop() that failed: it is never replaced while the stream is enabled.
C16_AllocationOnlyWhenStopped ==
  [][AllocationStep => (~streamOn /\ buffers_ = <<>> /\ NumMapped(buffers_) = 0)]_vars

\* the calls the owner's thread makes on the session
OwnerOps == {"stop", "start", "requestImageSize", "requestPixelFormat", "setControlValue"}

\* capture() has started and not returned
CaptureInProgress == pc \in {"requeue", "copy"}

\* C17: the calls on one session exclude each other: no stop(), start(), format
\* request or setControlValue of the parameter callback runs while a capture()
\* is in progress.
C17_CallsExcludeEachOther ==
  [][(ret' # ret /\ ret'.op \in OwnerOps) => ~CaptureInProgress]_vars

\* a step in which the node's format request reaches the device
FormatRequestStep ==
  /\ mpc.at \in {"pixel_format", "image_size", "size_request"}
  /\ mpc' # mpc
  /\ ret'.op \in FormatOps
  /\ ret'.sfmt = 1

\* C18: the node issues no format request to the device while the stream is
\* enabled, neither in its setup nor on a size update, also when the stop()
\* before it failed.
C18_NoFormatRequestWhileStreaming == [][FormatRequestStep => ~streamOn]_vars

\* C19: when the owner of a streaming session is destroyed, the stream is
\* stopped before the session is gone: no session is still streaming, with
\* its buffers mapped, once its owner is destroyed.
C19_DestroyedAfterStop == mpc.at = "destroyed" => ~streamOn

\* C20: whenever capture() copies, the dequeued index is an index of the pool,
\* that buffer is mapped, and the bytes copied (the image size of the current
\* format) fit its mapped length.
C20_CopyWithinMappedBuffer ==
  pc = "copy" => CopySourceValid(buffers_, capBuf, cur_data_format_.imageByteSize)

\* C21: the capture loop reads and publishes img only in the turns where
\* capture() returned a frame: when capture() returned no frame (a failed
\* dequeue or requeue), no field of img is accessed and nothing is published.
C21_PublishOnlyFrames == [][NodePublish => img = "frame"]_vars

\* C22: the destruction of the node terminates: once canceled_ is set, the
\* capture thread leaves its loop and the join completes (or the process has
\* died), also when the device delivers no further frame and the capture()
\* in progress is blocked in VIDIOC_DQBUF.
C22_DestructionTerminates == canceled_ ~> (mpc.at = "destroyed" \/ ~Alive)
====
